---- MODULE Spec2Model ----
(***************************************************************************)
(* A model of the Crystal Linux ISO build scripts:                         *)
(*   scripts/build.py   main_build and the stage functions it sequences    *)
(*   scripts/format.py  format_packages                                    *)
(*                                                                         *)
(* Text is a sequence of one-character strings, a file name a sequence of  *)
(* name tokens, a directory a function from the names (or relative paths)  *)
(* it holds to their files. A write that is cut short leaves a prefix of   *)
(* the text it was to write.                                               *)
(***************************************************************************)
EXTENDS Integers, Sequences, FiniteSets, TLC

VARIABLES
    \* ---- scripts/format.py
    fileExists,     \* the package list file exists
    fileText,       \* its content
    fmtIn,          \* the content format_packages read
    fmtPc,          \* "ready" | "formatted" | "not_found" | "error"
    \* ---- scripts/build.py: one process run of main_build
    pc,             \* the stage main_build runs next
    trace,          \* <<stage, result>> of every stage this run has executed
    runs,           \* runs of main_build started so far
    verbose,        \* args.verbose
    euid,           \* [uid, gid]: os.geteuid(), os.getegid()
    sudoUser,       \* the environment's original-user variable ("" when unset)
    day,            \* the date datetime.now() reports
    clock,          \* modification time the next written artifact gets
    cwd,            \* the process's current working directory
    original_cwd,   \* _run_mkarchiso's local: the directory it was entered in
    cmds,           \* the argv of every subprocess this run has spawned
    warnings,       \* the non-fatal diagnostics this run has printed
    exitCode,       \* the builder's exit status (-1: none)
    final_iso_path, \* what _process_output_iso returned (<<>>: None)
    old_iso_path,   \* the entry _process_output_iso selected (<<>>: none)
    outPre,         \* output_dir as _process_output_iso found it
    \* ---- the filesystem, shared by successive runs
    srcExists,      \* archiso_source_dir exists
    src,            \* archiso_source_dir: path -> content
    staged,         \* work_archiso_dir: path -> content
    pkglist,        \* work_dir/iso/arch/pkglist.x86_64.txt exists
    out,            \* output_dir: name -> [mtime, data, owner]
    outOwner        \* owner of output_dir itself, <<uid, gid>> (<<>>: it does not exist)

fmtVars == <<fileExists, fileText, fmtIn, fmtPc>>
runVars == <<pc, trace, runs, verbose, euid, sudoUser, day, clock, cwd,
             original_cwd, cmds, warnings, exitCode, final_iso_path, old_iso_path,
             outPre>>
fsVars == <<srcExists, src, staged, pkglist, out, outOwner>>
vars == <<fmtVars, runVars, fsVars>>

\* ------------------------------------------------------------------ bounds
MaxLines == 5
MaxRuns == 1

\* ----------------------------------------------------------- sequence helpers
EmptyDir == [x \in {} |-> <<>>]

\* Sequences over S of length 0..n
RECURSIVE SeqsUpTo(_, _)
SeqsUpTo(S, n) ==
    IF n = 0 THEN {<<>>}
    ELSE LET shorter == SeqsUpTo(S, n - 1)
         IN  shorter \cup {Append(s, x) : s \in {t \in shorter : Len(t) = n - 1}, x \in S}

\* Every ordering of the finite set S
RECURSIVE Orderings(_)
Orderings(S) ==
    IF S = {} THEN {<<>>}
    ELSE UNION {{<<x>> \o s : s \in Orderings(S \ {x})} : x \in S}

\* ======================================================== scripts/format.py

\* Code point of a character (Python compares str by code point)
Ord(c) ==
    CASE c = "\n" -> 10
      [] c = " "  -> 32
      [] c = "a"  -> 97
      [] c = "b"  -> 98

\* str < str
RECURSIVE StrLess(_, _)
StrLess(s, t) ==
    IF t = <<>> THEN FALSE
    ELSE IF s = <<>> THEN TRUE
    ELSE IF Head(s) = Head(t) THEN StrLess(Tail(s), Tail(t))
    ELSE Ord(Head(s)) < Ord(Head(t))

\* str.splitlines(): the pieces between line breaks; a final line break opens no
\* further piece. cur is the piece being read.
RECURSIVE SplitFrom(_, _)
SplitFrom(text, cur) ==
    IF text = <<>> THEN (IF cur = <<>> THEN <<>> ELSE <<cur>>)
    ELSE IF Head(text) = "\n" THEN <<cur>> \o SplitFrom(Tail(text), <<>>)
    ELSE SplitFrom(Tail(text), Append(cur, Head(text)))

splitlines(text) == SplitFrom(text, <<>>)

IsSpace(c) == c \in {" ", "\n"}

RECURSIVE lstrip(_)
lstrip(s) == IF s # <<>> /\ IsSpace(Head(s)) THEN lstrip(Tail(s)) ELSE s

RECURSIVE rstrip(_)
rstrip(s) ==
    IF s # <<>> /\ IsSpace(s[Len(s)]) THEN rstrip(SubSeq(s, 1, Len(s) - 1)) ELSE s

\* str.strip()
strip(s) == rstrip(lstrip(s))

\* [line.strip() for line in f.read().splitlines() if line.strip()]
RECURSIVE StripNonBlank(_)
StripNonBlank(ls) ==
    IF ls = <<>> THEN <<>>
    ELSE IF strip(Head(ls)) # <<>> THEN <<strip(Head(ls))>> \o StripNonBlank(Tail(ls))
    ELSE StripNonBlank(Tail(ls))

packages(text) == StripNonBlank(splitlines(text))

\* list(set(packages)): the distinct entries
unique_packages(text) == {packages(text)[i] : i \in DOMAIN packages(text)}

\* sorted(S): ascending, the least element first
RECURSIVE sorted(_)
sorted(S) ==
    IF S = {} THEN <<>>
    ELSE LET m == CHOOSE x \in S : \A y \in S \ {x} : StrLess(x, y)
         IN  <<m>> \o sorted(S \ {m})

sorted_packages(text) == sorted(unique_packages(text))

\* '\n'.join(ls)
RECURSIVE join(_)
join(ls) ==
    IF ls = <<>> THEN <<>>
    ELSE IF Len(ls) = 1 THEN Head(ls)
    ELSE Head(ls) \o <<"\n">> \o join(Tail(ls))

\* What format_packages writes back: '\n'.join(sorted_packages) + '\n'
FormatText(text) == join(sorted_packages(text)) \o <<"\n">>

\* The lines a package list is drawn from
InputLines == {<<>>, <<" ">>, <<"a">>, <<"b">>, <<" ", "a", " ">>, <<"a", "b">>}

\* A package list: up to MaxLines lines, its last line ended by a newline or not
InputTexts ==
    {join(ls) \o tail : ls \in SeqsUpTo(InputLines, MaxLines), tail \in {<<>>, <<"\n">>}}

\* ========================================================= scripts/build.py

None == <<>>                      \* a path that is None (falsy)
Days == {1, 2}                    \* the dates a behaviour may fall on
Root == [uid |-> "0", gid |-> "0"]
User == [uid |-> "1000", gid |-> "1000"]

\* datetime.now().strftime("%Y%m%d")
Ymd(d) == IF d = 1 THEN "20261031" ELSE "20261101"
\* datetime.now().strftime("%Y.%m")
Ym(d) == IF d = 1 THEN "2026.10" ELSE "2026.11"
\* the same, character by character
YmText(d) == <<"2", "0", "2", "6", ".", "1", IF d = 1 THEN "0" ELSE "1">>

\* f"CrystalLinux-{build_date}-{arch}.iso"
generate_iso_filename(d) == <<"CrystalLinux-", Ymd(d), "-", "x86_64", ".iso">>

\* ---- directories as functions
Put(dir, name, file) ==
    [n \in DOMAIN dir \cup {name} |-> IF n = name THEN file ELSE dir[n]]

\* os.rename(old, new): new is replaced when it exists
Rename(dir, old, new) ==
    IF old = new THEN dir
    ELSE [n \in (DOMAIN dir \ {old}) \cup {new} |-> IF n = new THEN dir[old] ELSE dir[n]]

\* open(name, "w") and a write of data by the process `who` at time now: a file
\* that exists is truncated and keeps its owner, a new one belongs to the writer
WriteFile(dir, name, data, now, who) ==
    Put(dir, name,
        [mtime |-> now, data |-> data,
         owner |-> IF name \in DOMAIN dir THEN dir[name].owner ELSE <<who.uid, who.gid>>])

\* the first n characters of text: what a write cut after n characters leaves
Prefix(text, n) == SubSeq(text, 1, n)

\* where a write of text that raises may have been cut
Cuts(text) == 0 .. (Len(text) - 1)

\* what is left of a tree when only the paths in kept survive
Restrict(tree, kept) == [p \in DOMAIN tree \cap kept |-> tree[p]]

\* os.path.exists(dir) for a directory of a tree that records files only
DirExists(tree, dir) ==
    \E p \in DOMAIN tree : Len(p) > Len(dir) /\ SubSeq(p, 1, Len(dir)) = dir

\* ---- update_version_file
VersionFile == <<"airootfs", "etc", "crystallinux-version">>

VersionOutcomes == {"ok", "open_error", "write_error"}

\* f"{build_date}\n"
VersionText(d) == YmText(d) \o <<"\n">>

\* open(version_file, "w") needs airootfs/etc and raises IOError without it.
\* how: nothing raises | open raises, the tree is as it was | the write raises
\* after cut characters reached the file open() created or truncated
update_version_file(tree, d, how, cut) ==
    IF how = "open_error" \/ ~DirExists(tree, <<"airootfs", "etc">>)
    THEN [result |-> "fail", tree |-> tree, warn |-> {"Error writing to version file"}]
    ELSE IF how = "write_error"
    THEN [result |-> "fail", tree |-> Put(tree, VersionFile, Prefix(VersionText(d), cut)),
          warn |-> {"Error writing to version file"}]
    ELSE [result |-> "ok", tree |-> Put(tree, VersionFile, VersionText(d)),
          warn |-> {}]

\* ---- generate_checksum
\* hashlib.sha256(bytes).hexdigest(), kept symbolic: distinct bytes, distinct
\* digests, and no digest is empty
Sha256Hex(bytes) == <<"sha256">> \o bytes

\* the hex digest of the file at path, or None when reading raises IOError
generate_checksum(dir, path, readOk) ==
    IF readOk /\ path \in DOMAIN dir THEN Sha256Hex(dir[path].data) ELSE None

\* ---- _setup_paths
\* os.makedirs raising is not caught; a missing archiso source gives the Nones,
\* after the directories were made. owner: output_dir's owner, None when it does
\* not exist: os.makedirs then creates it, and it belongs to the process's user
setup_paths(sourceExists, makedirsOk, owner, who) ==
    IF ~makedirsOk THEN [result |-> "raise", owner |-> owner]
    ELSE [result |-> IF sourceExists THEN "ok" ELSE "fail",
          owner |-> IF owner = None THEN <<who.uid, who.gid>> ELSE owner]

\* ---- _clean_work_dir
\* work_dir exists after _setup_paths; rmtree + makedirs empties it. When rmtree
\* (or the makedirs after it) raises OSError, what rmtree had not yet removed is
\* left: the staged files in kept, and the package list when keptManifest
clean_work_dir(tree, manifest, clean, rmtreeOk, kept, keptManifest) ==
    IF clean
    THEN IF rmtreeOk THEN [result |-> "ok", tree |-> EmptyDir, manifest |-> FALSE]
         ELSE [result |-> "fail", tree |-> Restrict(tree, kept),
               manifest |-> manifest /\ keptManifest]
    ELSE [result |-> "ok", tree |-> tree, manifest |-> manifest]

\* ---- _copy_archiso_profile
IsGit(p) == \E i \in DOMAIN p : p[i] = ".git"

RsyncCmd ==
    <<"rsync", "-a", "--delete", "--exclude", ".git", "archiso_source_dir/",
      "work_archiso_dir">>

\* rsync -a --delete --exclude .git source/ dest: the source's files that are not
\* excluded replace the destination's; an excluded path of the destination is
\* neither transferred nor deleted
rsync_mirror(source, dest) ==
    [p \in {q \in DOMAIN source : ~IsGit(q)} \cup {q \in DOMAIN dest : IsGit(q)} |->
        IF IsGit(p) THEN dest[p] ELSE source[p]]

\* shutil.copytree(source, dest) into the directory rmtree removed
copytree(source) == source

\* a copytree that raises: it goes on past a file it could not copy and raises
\* at the end, so the files in DOMAIN part were created, and part[p] characters
\* of the source's file reached each
copytree_partial(source, part) ==
    [p \in DOMAIN part \cap DOMAIN source |-> Prefix(source[p], part[p])]

\* what a failing copytree of source may have written
PartialCopies(source) ==
    UNION {{f \in [S -> 0 .. 2] : \A p \in S : f[p] <= Len(source[p])} :
              S \in SUBSET DOMAIN source}

CopyOutcomes ==
    {"rsync_ok", "rsync_missing", "rsync_failed", "makedirs_error", "rmtree_error",
     "copytree_error"}

\* how: what the environment lets happen. rsync_missing and rsync_failed take the
\* fallback and it succeeds. rmtree_error: rsync is not installed and the
\* fallback's rmtree raises, leaving the files in kept. copytree_error: rsync is
\* not installed, rmtree empties the directory and copytree raises, leaving part
copy_archiso_profile(source, dest, how, kept, part) ==
    CASE how = "makedirs_error" -> [result |-> "fail", tree |-> dest, cmds |-> <<>>]
      [] how = "rsync_ok" ->
            [result |-> "ok", tree |-> rsync_mirror(source, dest), cmds |-> <<RsyncCmd>>]
      [] how \in {"rsync_missing", "rsync_failed"} ->
            [result |-> "ok", tree |-> copytree(source), cmds |-> <<RsyncCmd>>]
      [] how = "rmtree_error" ->
            [result |-> "fail", tree |-> Restrict(dest, kept), cmds |-> <<RsyncCmd>>]
      [] how = "copytree_error" ->
            [result |-> "fail", tree |-> copytree_partial(source, part),
             cmds |-> <<RsyncCmd>>]

\* ---- _run_mkarchiso
MkarchisoCmd(v) ==
    <<"sudo", "mkarchiso">> \o (IF v THEN <<"-v">> ELSE <<>>)
        \o <<"-w", "work_dir", "-o", "output_dir", "work_archiso_dir">>

BuildOutcomes == {"getcwd_error", "chdir_error", "spawn_error", "drain_error", "exited"}

\* finally: os.chdir(original_cwd), on return and on a propagating exception;
\* when it raises the process stays where it is
RestoreCwd(inside, original, restoreOk) == IF restoreOk THEN original ELSE inside

\* how: os.getcwd() raises before the try | chdir raises OSError | Popen raises
\* OSError | reading the builder's output raises an exception neither except
\* clause names | the builder exits with status code. restoreOk: the chdir of the
\* finally clause does not raise; when it does, its exception replaces the return
run_mkarchiso(dir, v, how, code, restoreOk) ==
    LET inside == IF how = "chdir_error" THEN dir ELSE "project_root"
    IN  IF how = "getcwd_error"
        THEN [result |-> "raise", original_cwd |-> "", cwd |-> dir, cmds |-> <<>>,
              exitCode |-> -1]
        ELSE [result |-> IF how = "drain_error" \/ ~restoreOk THEN "raise"
                         ELSE IF how = "exited" /\ code = 0 THEN "ok"
                         ELSE "fail",
              original_cwd |-> dir,
              cwd |-> RestoreCwd(inside, dir, restoreOk),
              cmds |-> IF how = "chdir_error" THEN <<>> ELSE <<MkarchisoCmd(v)>>,
              exitCode |-> IF how = "exited" THEN code ELSE -1]

\* ---- _process_output_iso
generated_iso_name_pattern == "CrystalLinux-"

\* f.startswith(prefix), f.endswith(suffix) on a name held as tokens
startswith(name, prefix) == name # <<>> /\ name[1] = prefix
endswith(name, suffix) == name # <<>> /\ name[Len(name)] = suffix

\* the entries of output_dir the list comprehension keeps
Matching(dir) ==
    {f \in DOMAIN dir : startswith(f, generated_iso_name_pattern) /\ endswith(f, ".iso")}

\* x put into the sequence acc, which is sorted by descending mtime, behind every
\* entry at least as new: sorted(..., reverse=True) is stable
RECURSIVE InsertDesc(_, _, _)
InsertDesc(dir, acc, x) ==
    IF acc # <<>> /\ dir[Head(acc)].mtime >= dir[x].mtime
    THEN <<Head(acc)>> \o InsertDesc(dir, Tail(acc), x)
    ELSE <<x>> \o acc

RECURSIVE SortDesc(_, _, _)
SortDesc(dir, acc, rest) ==
    IF rest = <<>> THEN acc
    ELSE SortDesc(dir, InsertDesc(dir, acc, Head(rest)), Tail(rest))

\* (variant) reverse=True is left out: the oldest entry comes first
RECURSIVE InsertAsc(_, _, _)
InsertAsc(dir, acc, x) ==
    IF acc # <<>> /\ dir[Head(acc)].mtime <= dir[x].mtime
    THEN <<Head(acc)>> \o InsertAsc(dir, Tail(acc), x)
    ELSE <<x>> \o acc

RECURSIVE SortAsc(_, _, _)
SortAsc(dir, acc, rest) ==
    IF rest = <<>> THEN acc
    ELSE SortAsc(dir, InsertAsc(dir, acc, Head(rest)), Tail(rest))

filesOldestFirst(dir, listing) == SortAsc(dir, <<>>, listing)

\* files = sorted([...], key=os.path.getmtime, reverse=True); listing is the
\* matching entries in the order os.listdir gave them
files(dir, listing) == SortDesc(dir, <<>>, listing)

SidecarOf(path) == Append(path, ".sha256")

SidecarText(checksum, path) == checksum \o <<"  ">> \o path \o <<"\n">>

ChecksumOutcomes == {"ok", "read_error", "open_error", "write_error"}

\* the sidecar write: open(checksum_file_path, "w") raising leaves the directory
\* as it is; the write raising leaves the cut characters that reached the file
write_sidecar(dir, path, checksum, now, csum, cut, who) ==
    CASE csum = "open_error" -> dir
      [] csum = "write_error" ->
            WriteFile(dir, SidecarOf(path), Prefix(SidecarText(checksum, path), cut), now,
                      who)
      [] OTHER -> WriteFile(dir, SidecarOf(path), SidecarText(checksum, path), now, who)

\* listOk: os.listdir and os.path.getmtime, which no try encloses, do not raise;
\* listing: os.listdir's order of the matching entries; d: today; now: the time;
\* renameOk: os.rename raises no OSError; csum: how the checksum step ends; cut:
\* where a failing sidecar write stopped; who: the process's user
process_output_iso(dir, listOk, listing, d, now, renameOk, csum, cut, who) ==
    LET fs == files(dir, listing)
        new_iso_path == generate_iso_filename(d)
    IN  IF ~listOk
        THEN [result |-> "raise", ret |-> None, old |-> None, dir |-> dir, warn |-> {}]
        ELSE IF fs = <<>>
        THEN [result |-> "fail", ret |-> None, old |-> None, dir |-> dir, warn |-> {}]
        ELSE IF ~renameOk
        THEN [result |-> "fail", ret |-> None, old |-> fs[1], dir |-> dir, warn |-> {}]
        ELSE LET renamed == Rename(dir, fs[1], new_iso_path)
                 checksum == generate_checksum(renamed, new_iso_path, csum # "read_error")
             IN  IF new_iso_path \notin DOMAIN renamed
                 THEN [result |-> "fail", ret |-> None, old |-> fs[1], dir |-> renamed,
                       warn |-> {}]
                 ELSE [result |-> "ok", ret |-> new_iso_path, old |-> fs[1],
                       dir |-> IF checksum # None
                               THEN write_sidecar(renamed, new_iso_path, checksum, now, csum,
                                                  cut, who)
                               ELSE renamed,
                       warn |-> IF checksum = None THEN {"Failed to generate checksum."}
                                ELSE IF csum \in {"open_error", "write_error"}
                                THEN {"Error saving checksum file"}
                                ELSE {}]

\* ---- _handle_ownership
ChownCmd(who) == <<"sudo", "chown", "-R", who.uid, ":", who.gid, "output_dir">>

ChownOutcomes == {"ok", "failed", "no_sudo"}

\* what a failing chown -R over dir has re-owned: any of its entries, and the
\* directory itself or not
PartialChowns(dir) == [done : SUBSET DOMAIN dir, top : BOOLEAN]

\* chown of the entries in done, and of the directory itself when top
chown(dir, owner, who, done, top) ==
    [dir |-> [n \in DOMAIN dir |->
                 IF n \in done THEN [dir[n] EXCEPT !.owner = <<who.uid, who.gid>>]
                 ELSE dir[n]],
     owner |-> IF top THEN <<who.uid, who.gid>> ELSE owner]

\* who: os.geteuid(), os.getegid(); how: the command succeeds | it exits non-zero
\* (CalledProcessError) | sudo is not installed (FileNotFoundError). chown -R
\* goes on past what it cannot change and then exits non-zero: a failed command
\* has re-owned the entries in done, and output_dir itself when top
handle_ownership(dir, owner, who, how, done, top) ==
    LET r == CASE how = "ok" -> chown(dir, owner, who, DOMAIN dir, TRUE)
               [] how = "failed" -> chown(dir, owner, who, done, top)
               [] how = "no_sudo" -> [dir |-> dir, owner |-> owner]
    IN  [result |-> IF how = "ok" THEN "ok" ELSE "fail",
         warn |-> IF how = "ok" THEN {} ELSE {"Warning: Could not change ownership"},
         cmds |-> <<ChownCmd(who)>>,
         dir |-> r.dir,
         owner |-> r.owner]

\* ---- _copy_package_list
\* os.path.splitext(name)[0]: the name without its last extension
Stem(name) == SubSeq(name, 1, Len(name) - 1)

package_list_dest(iso_path) ==
    IF iso_path # None THEN Append(Stem(iso_path), ".pkgs.txt")
    ELSE <<"pkglist.x86_64", ".txt">>

PackageListOutcomes == {"ok", "open_error", "write_error", "chmod_error"}

\* what mkarchiso writes to pkglist.x86_64.txt
PackageListText == <<"p", "l">>

\* manifest: the source exists. how, for shutil.copy (copyfile, then copymode):
\* nothing raises | opening the source or the destination raises, output_dir is
\* as it was | writing raises after cut characters reached the destination
\* open() created or truncated | the content is written and copymode raises
copy_package_list(manifest, dir, iso_path, now, how, cut, who) ==
    LET dest == package_list_dest(iso_path)
    IN  IF ~manifest
        THEN [result |-> "fail", dir |-> dir,
              warn |-> {"Warning: Package list file not found"}]
        ELSE IF how = "ok"
        THEN [result |-> "ok", warn |-> {},
              dir |-> WriteFile(dir, dest, PackageListText, now, who)]
        ELSE [result |-> "fail", warn |-> {"Error copying package list"},
              dir |-> CASE how = "open_error" -> dir
                        [] how = "write_error" ->
                              WriteFile(dir, dest, Prefix(PackageListText, cut), now, who)
                        [] how = "chmod_error" ->
                              WriteFile(dir, dest, PackageListText, now, who)]

\* ---- main_build
Order == <<"setup", "clean", "copy", "stamp", "build", "process", "own", "pkgs">>

\* (variant) the builder's result is not tested
MainNextIgnoresBuilder(stage, result) ==
    CASE stage = "setup"   -> IF result = "ok" THEN "clean" ELSE "exit"
      [] stage = "clean"   -> IF result = "ok" THEN "copy" ELSE "exit"
      [] stage = "copy"    -> IF result = "ok" THEN "stamp" ELSE "exit"
      [] stage = "stamp"   -> "build"
      [] stage = "build"   -> "process"
      [] stage = "process" -> IF result = "ok" THEN "own" ELSE "exit"
      [] stage = "own"     -> "pkgs"
      [] stage = "pkgs"    -> "done"

\* (variant) every stage's failure is an early return
MainNextAllFatal(stage, result) ==
    IF result # "ok" THEN "exit"
    ELSE CASE stage = "setup"   -> "clean"
           [] stage = "clean"   -> "copy"
           [] stage = "copy"    -> "stamp"
           [] stage = "stamp"   -> "build"
           [] stage = "build"   -> "process"
           [] stage = "process" -> "own"
           [] stage = "own"     -> "pkgs"
           [] stage = "pkgs"    -> "done"

\* the stage main_build goes to once `stage` has returned `result`; "exit" is an
\* early return, "done" the end of the function
MainNext(stage, result) ==
    CASE stage = "setup"   -> IF result = "ok" THEN "clean" ELSE "exit"
      [] stage = "clean"   -> IF result = "ok" THEN "copy" ELSE "exit"
      [] stage = "copy"    -> IF result = "ok" THEN "stamp" ELSE "exit"
      [] stage = "stamp"   -> "build"
      [] stage = "build"   -> IF result = "ok" THEN "process" ELSE "exit"
      [] stage = "process" -> IF result = "ok" THEN "own" ELSE "exit"
      [] stage = "own"     -> "pkgs"
      [] stage = "pkgs"    -> "done"

\* an exception no stage catches leaves main_build at once
After(stage, result) == IF result = "raise" THEN "crashed" ELSE MainNext(stage, result)

Ran(stage) == \E i \in DOMAIN trace : trace[i][1] = stage
Result(stage) ==
    IF Ran(stage) THEN (CHOOSE e \in {trace[i] : i \in DOMAIN trace} : e[1] = stage)[2]
    ELSE "none"

\* ------------------------------------------------------- the environment
\* archiso profiles the repository may hold; each file is two characters long
Profile ==
    (<<"profiledef.sh">> :> <<"i", "1">>)
        @@ (<<"airootfs", "etc", "hostname">> :> <<"c", "l">>)

ProfileWithGit == Profile @@ (<<".git", "HEAD">> :> <<"r", "1">>)

SourceDirs == {ProfileWithGit}

\* what an earlier run may have left in work_archiso_dir
Leftover ==
    (<<"profiledef.sh">> :> <<"i", "0">>)
        @@ (<<"packages.old">> :> <<"o", "p">>)
        @@ (<<".git", "HEAD">> :> <<"r", "0">>)

\* work_dir before the first run: empty, or holding the profile and the package
\* list of an earlier build
WorkDirs ==
    {[staged |-> EmptyDir, pkglist |-> FALSE], [staged |-> Leftover, pkglist |-> TRUE]}

\* the name mkarchiso gives its image: iso_name, iso_version (YYYY.MM), arch
mkarchiso_name(d) == <<"CrystalLinux-", Ym(d), "-", "x86_64", ".iso">>

\* the bytes of the image built at time t: no two builds give the same image
ImageBytes(t) == <<"image", ToString(t)>>

ForeignIso == <<"archlinux-", "2026.10.01", "-", "x86_64", ".iso">>

\* an image of another product, newer than anything built
Foreign ==
    ForeignIso :>
        [mtime |-> 9, data |-> <<"image", "foreign">>, owner |-> <<"1000", "1000">>]

\* the image and the checksum file of an earlier build of day 1
Earlier ==
    (generate_iso_filename(1) :>
        [mtime |-> 0, data |-> <<"image", "0">>, owner |-> <<"1000", "1000">>])
    @@ (SidecarOf(generate_iso_filename(1)) :>
        [mtime |-> 0,
         data |-> SidecarText(Sha256Hex(<<"image", "0">>), generate_iso_filename(1)),
         owner |-> <<"1000", "1000">>])

\* the image of a build older still, modified since: newer than anything built
Touched ==
    <<"CrystalLinux-", "20260930", "-", "x86_64", ".iso">> :>
        [mtime |-> 5, data |-> <<"image", "old">>, owner |-> <<"1000", "1000">>]

\* output_dir before the first run: empty, or holding the other product's image,
\* alone, next to what the earlier build left, or next to that and the older
\* image
OutputDirs == {EmptyDir, Foreign, Foreign @@ Earlier, Foreign @@ Earlier @@ Touched}

\* how the script is started: by a user as build.py -v, or through sudo as
\* build.py
Invocations ==
    {[who |-> User, sudoUser |-> "", verbose |-> TRUE],
     [who |-> Root, sudoUser |-> "1000", verbose |-> FALSE]}

\* ------------------------------------------------------------------ Init
FormatIdle ==
    /\ fileExists = FALSE
    /\ fileText = <<>>
    /\ fmtIn = <<>>
    /\ fmtPc = "off"

BuildIdle ==
    /\ pc = "off"
    /\ trace = <<>>
    /\ runs = 0
    /\ verbose = FALSE
    /\ euid = User
    /\ sudoUser = ""
    /\ day = 1
    /\ clock = 1
    /\ cwd = "scripts"
    /\ original_cwd = ""
    /\ cmds = <<>>
    /\ warnings = {}
    /\ exitCode = -1
    /\ final_iso_path = None
    /\ old_iso_path = None
    /\ outPre = EmptyDir
    /\ srcExists = FALSE
    /\ src = EmptyDir
    /\ staged = EmptyDir
    /\ pkglist = FALSE
    /\ out = EmptyDir
    /\ outOwner = <<"1000", "1000">>

Init ==
    /\ FormatIdle
    /\ pc = "start"
    /\ trace = <<>>
    /\ runs = 0
    /\ verbose = FALSE
    /\ euid = User
    /\ sudoUser = ""
    /\ day = 1
    /\ clock = 1
    /\ cwd = "scripts"
    /\ original_cwd = ""
    /\ cmds = <<>>
    /\ warnings = {}
    /\ exitCode = -1
    /\ final_iso_path = None
    /\ old_iso_path = None
    /\ outPre = EmptyDir
    /\ srcExists \in BOOLEAN
    /\ src \in (IF srcExists THEN SourceDirs ELSE {EmptyDir})
    /\ \E w \in WorkDirs : staged = w.staged /\ pkglist = w.pkglist
    /\ out \in OutputDirs
    /\ outOwner \in (IF out = EmptyDir THEN {None, <<"1000", "1000">>}
                    ELSE {<<"1000", "1000">>})

\* --------------------------------------------------------------- actions
\* A run of main_build starts, a new process in scripts/: _parse_args and
\* _setup_paths. Time has passed since the run before it: the date may be a
\* later one
Setup ==
    /\ pc \in {"start", "exit", "crashed", "done"}
    /\ runs < MaxRuns
    /\ \E inv \in Invocations, makedirsOk \in BOOLEAN :
        LET r == setup_paths(srcExists, makedirsOk, outOwner, inv.who)
        IN  /\ verbose' = inv.verbose
            /\ euid' = inv.who
            /\ sudoUser' = inv.sudoUser
            /\ outOwner' = r.owner
            /\ trace' = <<<<"setup", r.result>>>>
            /\ pc' = After("setup", r.result)
    /\ runs' = runs + 1
    /\ original_cwd' = ""
    /\ cmds' = <<>>
    /\ warnings' = {}
    /\ exitCode' = -1
    /\ final_iso_path' = None
    /\ old_iso_path' = None
    /\ outPre' = EmptyDir
    /\ day' \in {d \in Days : d >= day}
    /\ cwd' = "scripts"
    /\ UNCHANGED <<clock, srcExists, src, staged, pkglist, out, fmtVars>>

\* _clean_work_dir; clean_first is args.clean
Clean ==
    /\ pc = "clean"
    /\ \E clean_first \in BOOLEAN, rmtreeOk \in BOOLEAN :
       \E kept \in (IF clean_first /\ ~rmtreeOk THEN SUBSET DOMAIN staged ELSE {{}}),
          keptManifest \in (IF clean_first /\ ~rmtreeOk THEN BOOLEAN ELSE {FALSE}) :
        LET r == clean_work_dir(staged, pkglist, clean_first, rmtreeOk, kept,
                                keptManifest)
        IN  /\ staged' = r.tree
            /\ pkglist' = r.manifest
            /\ trace' = Append(trace, <<"clean", r.result>>)
            /\ pc' = After("clean", r.result)
    /\ UNCHANGED <<runs, verbose, euid, sudoUser, day, clock, cwd,
                   original_cwd, cmds, warnings, exitCode, final_iso_path, old_iso_path, outPre,
                   srcExists, src, out, outOwner, fmtVars>>

\* _copy_archiso_profile
CopyProfile ==
    /\ pc = "copy"
    /\ \E how \in CopyOutcomes :
       \E kept \in (IF how = "rmtree_error" THEN SUBSET DOMAIN staged ELSE {{}}),
          part \in (IF how = "copytree_error" THEN PartialCopies(src) ELSE {EmptyDir}) :
        LET r == copy_archiso_profile(src, staged, how, kept, part)
        IN  /\ staged' = r.tree
            /\ cmds' = cmds \o r.cmds
            /\ trace' = Append(trace, <<"copy", r.result>>)
            /\ pc' = After("copy", r.result)
    /\ UNCHANGED <<runs, verbose, euid, sudoUser, day, clock, cwd,
                   original_cwd, warnings, exitCode, final_iso_path, old_iso_path, outPre,
                   srcExists, src, pkglist, out, outOwner, fmtVars>>

\* update_version_file
Stamp ==
    /\ pc = "stamp"
    /\ \E how \in VersionOutcomes :
       \E cut \in (IF how = "write_error" THEN Cuts(VersionText(day)) ELSE {0}) :
        LET r == update_version_file(staged, day, how, cut)
        IN  /\ staged' = r.tree
            /\ warnings' = warnings \cup r.warn
            /\ trace' = Append(trace, <<"stamp", r.result>>)
            /\ pc' = After("stamp", r.result)
    /\ UNCHANGED <<runs, verbose, euid, sudoUser, day, clock, cwd,
                   original_cwd, cmds, exitCode, final_iso_path, old_iso_path, outPre,
                   srcExists, src, pkglist, out, outOwner, fmtVars>>

\* _run_mkarchiso. A builder that was spawned may write the package list, and may
\* write an image, each with or without the other, as root; it runs for long,
\* and the date may be a later one when it ends
RunMkarchiso ==
    /\ pc = "build"
    /\ \E how \in BuildOutcomes, code \in {0, 1}, restoreOk \in BOOLEAN :
        LET r == run_mkarchiso(cwd, verbose, how, code, restoreOk)
            spawned == how \in {"drain_error", "exited"}
        IN  /\ cwd' = r.cwd
            /\ original_cwd' = r.original_cwd
            /\ cmds' = cmds \o r.cmds
            /\ exitCode' = r.exitCode
            /\ trace' = Append(trace, <<"build", r.result>>)
            /\ pc' = After("build", r.result)
            /\ \E m \in (IF spawned THEN BOOLEAN ELSE {FALSE}) : pkglist' = (pkglist \/ m)
            /\ \/ /\ UNCHANGED <<out, clock>>
               \/ /\ spawned
                  /\ out' = Put(out, mkarchiso_name(day),
                                [mtime |-> clock, data |-> ImageBytes(clock),
                                 owner |-> <<Root.uid, Root.gid>>])
                  /\ clock' = clock + 1
    /\ day' \in {d \in Days : d >= day}
    /\ UNCHANGED <<runs, verbose, euid, sudoUser, warnings, final_iso_path,
                   old_iso_path, outPre, srcExists, src, staged, outOwner, fmtVars>>

\* _process_output_iso
ProcessOutputIso ==
    /\ pc = "process"
    /\ \E listOk \in BOOLEAN, listing \in Orderings(Matching(out)), renameOk \in BOOLEAN,
          csum \in ChecksumOutcomes :
       \E cut \in (IF csum = "write_error"
                   THEN Cuts(SidecarText(Sha256Hex(ImageBytes(clock)),
                                          generate_iso_filename(day)))
                   ELSE {0}) :
        LET r == process_output_iso(out, listOk, listing, day, clock, renameOk, csum, cut,
                                    euid)
        IN  /\ out' = r.dir
            /\ final_iso_path' = r.ret
            /\ old_iso_path' = r.old
            /\ warnings' = warnings \cup r.warn
            /\ trace' = Append(trace, <<"process", r.result>>)
            /\ pc' = After("process", r.result)
    /\ outPre' = out
    /\ UNCHANGED <<runs, verbose, euid, sudoUser, day, clock, cwd,
                   original_cwd, cmds, exitCode, srcExists, src, staged, pkglist,
                   outOwner, fmtVars>>

\* _handle_ownership
HandleOwnership ==
    /\ pc = "own"
    /\ \E how \in ChownOutcomes :
       \E c \in (IF how = "failed" THEN PartialChowns(out)
                 ELSE {[done |-> {}, top |-> FALSE]}) :
        LET r == handle_ownership(out, outOwner, euid, how, c.done, c.top)
        IN  /\ out' = r.dir
            /\ outOwner' = r.owner
            /\ cmds' = cmds \o r.cmds
            /\ warnings' = warnings \cup r.warn
            /\ trace' = Append(trace, <<"own", r.result>>)
            /\ pc' = After("own", r.result)
    /\ UNCHANGED <<runs, verbose, euid, sudoUser, day, clock, cwd,
                   original_cwd, exitCode, final_iso_path, old_iso_path, outPre,
                   srcExists, src, staged, pkglist, fmtVars>>

\* _copy_package_list and the summary main_build prints
CopyPackageList ==
    /\ pc = "pkgs"
    /\ \E how \in PackageListOutcomes :
       \E cut \in (IF how = "write_error" THEN Cuts(PackageListText) ELSE {0}) :
        LET r == copy_package_list(pkglist, out, final_iso_path, clock, how, cut, euid)
        IN  /\ out' = r.dir
            /\ warnings' = warnings \cup r.warn
            /\ trace' = Append(trace, <<"pkgs", r.result>>)
            /\ pc' = After("pkgs", r.result)
    /\ UNCHANGED <<runs, verbose, euid, sudoUser, day, clock, cwd,
                   original_cwd, cmds, exitCode, final_iso_path, old_iso_path, outPre,
                   srcExists, src, staged, pkglist, outOwner, fmtVars>>

Next ==
    \/ Setup
    \/ Clean
    \/ CopyProfile
    \/ Stamp
    \/ RunMkarchiso
    \/ ProcessOutputIso
    \/ HandleOwnership
    \/ CopyPackageList

Spec == Init /\ [][Next]_vars

\* ---- scripts/format.py as a state machine
InitFormat ==
    /\ BuildIdle
    /\ fileExists \in BOOLEAN
    /\ fileText \in (IF fileExists THEN InputTexts ELSE {<<>>})
    /\ fmtIn = <<>>
    /\ fmtPc = "ready"

FormatOutcomes == {"ok", "read_error", "write_error"}

\* format_packages(file_path): a missing file is reported and nothing is written.
\* how: nothing raises | reading, or opening for the write, raises and the file
\* is as it was | the write raises after cut characters reached the file
\* open(file_path, 'w') truncated
FormatPackages ==
    /\ fmtPc = "ready"
    /\ fmtIn' = fileText
    /\ \E how \in FormatOutcomes :
       \E cut \in (IF fileExists /\ how = "write_error" THEN Cuts(FormatText(fileText))
                   ELSE {0}) :
        IF ~fileExists
        THEN /\ fileText' = fileText
             /\ fmtPc' = "not_found"
        ELSE IF how = "ok"
        THEN /\ fileText' = FormatText(fileText)
             /\ fmtPc' = "formatted"
        ELSE /\ fileText' = (IF how = "write_error" THEN Prefix(FormatText(fileText), cut)
                             ELSE fileText)
             /\ fmtPc' = "error"
    /\ UNCHANGED <<fileExists, runVars, fsVars>>

NextFormat == FormatPackages

SpecFormat == InitFormat /\ [][NextFormat]_vars

\* ================================================================ claims

Ended == pc \in {"exit", "crashed", "done"}

\* the texts of a sequence, one after the other
RECURSIVE Concat(_)
Concat(ss) == IF ss = <<>> THEN <<>> ELSE Head(ss) \o Concat(Tail(ss))

\* an entry whose name starts with the product prefix and ends with ".iso"
IsProductIso(name) == name[1] = "CrystalLinux-" /\ name[Len(name)] = ".iso"
ProductIsos(dir) == {f \in DOMAIN dir : IsProductIso(f)}

\* C1: the stages of a run execute in the order setup, clean, copy, stamp, build,
\* process, own, pkgs; the builder starts only after setup, clean and staging
\* succeeded; output discovery runs only after the builder exited with status 0;
\* the ownership restorer and the manifest relocator run only after the finalizer
\* returned an artifact path; and a fatal stage that failed is the last stage run.
C1_StagesInOrderFatalStops ==
    /\ Len(trace) <= Len(Order)
    /\ \A i \in DOMAIN trace : trace[i][1] = Order[i]
    /\ Ran("build") =>
          Result("setup") = "ok" /\ Result("clean") = "ok" /\ Result("copy") = "ok"
    /\ Ran("process") => Result("build") = "ok" /\ exitCode = 0
    /\ (Ran("own") \/ Ran("pkgs")) => Result("process") = "ok" /\ final_iso_path # None
    /\ \A i \in DOMAIN trace :
          (trace[i][1] \in {"setup", "clean", "copy", "build", "process"}
              /\ trace[i][2] # "ok")
          => i = Len(trace) /\ pc \in {"exit", "crashed"}

\* a run the builder's non-zero exit status ended before output discovery
C1_Witness ==
    /\ pc = "exit"
    /\ Result("build") = "fail"
    /\ exitCode = 1
    /\ Len(trace) = 5

\* C2: whenever _copy_archiso_profile has returned success, work_archiso_dir holds
\* exactly the files of the source that are not under a .git, with the source's
\* content, whichever copy mechanism ran and whatever the directory held before.
C2_StagedIsSourceWithoutGit ==
    (pc = "stamp" /\ Result("copy") = "ok") =>
        staged = [p \in {q \in DOMAIN src : \A i \in DOMAIN q : q[i] # ".git"} |-> src[p]]

C4_NoArtifactNoSideEffects ==
    (Ran("process") /\ ProductIsos(outPre) = {}) =>
        /\ final_iso_path = None
        /\ Result("process") = "fail"
        /\ out = outPre
        /\ ~Ran("own")
        /\ ~Ran("pkgs")

\* C5: whenever the finalizer has returned a path P and P.sha256 exists, its
\* content is the digest of P's bytes, two spaces, P's base name and a newline.
C5_SidecarMatchesArtifact ==
    (final_iso_path # None /\ Append(final_iso_path, ".sha256") \in DOMAIN out) =>
        out[Append(final_iso_path, ".sha256")].data =
            Sha256Hex(out[final_iso_path].data) \o <<"  ">> \o final_iso_path \o <<"\n">>

\* C6: after format_packages the file holds the distinct stripped non-blank lines
\* of its input in ascending order, each followed by one newline, and nothing else.
C6_FormatIsSortedDistinctLines ==
    fmtPc = "formatted" =>
        LET ls == sorted({packages(fmtIn)[i] : i \in DOMAIN packages(fmtIn)})
        IN  fileText = Concat([i \in DOMAIN ls |-> ls[i] \o <<"\n">>])

\* C7: when the effective user is the superuser, no command the run issues is
\* prefixed with an escalation helper.
C7_NoEscalationAsSuperuser ==
    euid.uid = "0" => \A i \in DOMAIN cmds : cmds[i][1] \notin {"sudo", "doas"}

\* C8: a version-stamp failure is followed by the builder, a checksum failure
\* still returns the artifact path, an ownership failure is followed by the
\* manifest relocator, and a run whose fatal stages all succeeded ends with the
\* final summary after all eight stages.
C8_NonFatalFailuresContinue ==
    /\ Result("stamp") = "fail" => (pc = "build" \/ Ran("build"))
    /\ (Ran("process") /\ old_iso_path # None
            /\ generate_iso_filename(day) \in DOMAIN out
            /\ warnings \cap {"Failed to generate checksum.", "Error saving checksum file"}
                  # {})
        => final_iso_path = generate_iso_filename(day) /\ Result("process") = "ok"
    /\ Result("own") = "fail" => (pc = "pkgs" \/ Ran("pkgs"))
    /\ (Ended /\ \A st \in {"setup", "clean", "copy", "build", "process"} :
                    Result(st) = "ok")
        => pc = "done" /\ Len(trace) = Len(Order)

\* a run that met all four non-fatal failures and reached the summary
C8_Witness ==
    /\ pc = "done"
    /\ Result("stamp") = "fail"
    /\ "Failed to generate checksum." \in warnings
    /\ Result("own") = "fail"
    /\ "Warning: Package list file not found" \in warnings
    /\ final_iso_path # None

\* C9: the ownership restorer issues an ownership change only when an original
\* user is detectable, and then to that user; otherwise it issues none and
\* reports success.
C9_OwnershipToOriginalUser ==
    Ran("own") =>
        IF sudoUser = ""
        THEN /\ \A i \in DOMAIN cmds : "chown" \notin {cmds[i][j] : j \in DOMAIN cmds[i]}
             /\ Result("own") = "ok"
        ELSE \A i \in DOMAIN cmds :
                "chown" \in {cmds[i][j] : j \in DOMAIN cmds[i]} => cmds[i][4] = sudoUser

\* C10: whenever _run_mkarchiso is left, by a return or by an exception, the
\* working directory is the one it was entered in; it returns success only when
\* the builder's exit status was 0.
C10_CwdRestoredOnEveryExit ==
    [][pc = "build" => (cwd' = cwd /\ (pc' = "process" => exitCode' = 0))]_vars

====
